---- MODULE Spec2Model ----
(***************************************************************************)
(* Model of the EEG monitoring classes of the repository:                  *)
(*   - update_buffer (EEGAnalyzer, AlertnessMonitor, CognitiveStateMonitor)*)
(*   - analyze_cognitive_state                                             *)
(*   - get_smoothed_state                                                  *)
(*   - CognitiveStateMonitor.get_current_state, driven by its __main__ loop*)
(*   - compute_band_powers (the monitors and EEGAnalyzer)                  *)
(*   - EEGAnalyzer.determine_brain_state                                   *)
(*   - EEGRecorder: run, update_plot, on_key_press                         *)
(*   - EEGRecorder.run under keyboard interrupts                           *)
(*   - CognitiveStateMonitor used through its methods, with disconnect     *)
(*   - EEGAnalyzer.run                                                     *)
(*   - AlertnessMonitor.run, statement by statement                        *)
(* Time is counted in tenths of a second.  Band powers are non-negative    *)
(* integers and every comparison of a quotient with a decimal threshold is *)
(* done exactly by cross multiplication.                                   *)
(***************************************************************************)
EXTENDS Integers, Sequences, FiniteSets, TLC

VARIABLES
    fs,                \* self.fs
    channel_count,     \* self.channel_count
    buffer_size,       \* self.buffer_size
    eeg_buffer,        \* self.eeg_buffer: channel -> row of buffer_size samples
    new_data,          \* the chunk of the last call (rows = samples), <<>> if it had none
    raised,            \* exception raised by the last call, "none" if it returned
    band_powers,       \* argument of the analyze_cognitive_state call
    state_info,        \* what the last analyze_cognitive_state call returned
    state_history,     \* self.state_history
    smoothed_state,    \* what the last get_smoothed_state call returned
    pushed,            \* history: the raw labels pushed since construction
    run_log,           \* history: first pushes of this process, <<raw label, returned label>>
    prev_log,          \* history: the same for the process that ran before this one
    now,               \* time.time(), in tenths of a second since construction
    last_update_time,  \* self.last_update_time
    is_connected,      \* self.is_connected
    result,            \* what the last get_current_state call returned
    pull,              \* history: what pull_chunk did in the last call
    emitted_at,        \* history: the times at which a classification result was returned
    inlet,             \* self.inlet: "open", or "None" after disconnect()
    fft_data,          \* the spectrum of the window handed to compute_band_powers
    computed,          \* what the last compute_band_powers call returned
    results,           \* results['channels'] handed to determine_brain_state
    brain_state,       \* what the last determine_brain_state call returned
    channel_names,     \* EEGAnalyzer: self.channel_names
    is_recording,      \* EEGRecorder: self.is_recording
    recorded_data,     \* EEGRecorder: self.recorded_data
    recorded_timestamps, \* EEGRecorder: self.recorded_timestamps
    should_quit,       \* EEGRecorder: self.should_quit
    plot_returned,     \* history: what the last update_plot call returned
    saved,             \* history: the number of recordings save_recording has written
    pc,                \* the statement of AlertnessMonitor.run that is executed next
    current_time,      \* the local current_time of AlertnessMonitor.run
    appended           \* history: the samples the loop has written to the buffer, counted up to buffer_size

bufvars == <<fs, channel_count, buffer_size, eeg_buffer, new_data, raised>>
clsvars == <<band_powers, state_info>>
smvars == <<state_history, smoothed_state, pushed, run_log, prev_log>>
pipevars == <<now, last_update_time, is_connected, result, pull, emitted_at, inlet>>
spvars == <<fft_data, computed>>
bsvars == <<results, brain_state, channel_names>>
recvars == <<is_recording, recorded_data, recorded_timestamps, should_quit, plot_returned, saved>>
runvars == <<pc, current_time>>
vars == <<bufvars, clsvars, smvars, pipevars, spvars, bsvars, recvars, runvars, appended>>

\* Python's None, as a record so that it can be compared with a returned dictionary
None == [state |-> "None"]

----------------------------------------------------------------------------
(* Bounds *)

MaxChunk == 3          \* largest number of samples in one pulled chunk

MaxPower == 5          \* largest band power fed to the classifier
MaxPushes == 6         \* largest number of get_smoothed_state calls in one process
MaxReplay == 2         \* number of pushes followed in the process that runs second

MaxTime == 62          \* the loop is followed for this many tenths of a second
MaxSamples == 4        \* EEGRecorder is followed until it has pulled this many samples

avg_window == 5        \* self.avg_window
update_interval == 30  \* self.update_interval, 3 s
TickPeriod == 1        \* time.sleep(0.1)
window_size == 5       \* EEGRecorder: self.window_size, in seconds
Calibration == 50      \* AlertnessMonitor.run: time.sleep(5)

ChannelCounts == {1, 2}   \* the channel_count of the streams considered
ChunkWidths == {0, 1, 2}  \* the number of values per sample of the chunks considered
SampleValues == {0, 1}
SampleRates == {1}
\* band powers whose classification is pushed to the smoother: DROWSY, ALERT, NORMAL
PushPowers == {[b \in {"Delta", "Theta", "Alpha", "Beta", "Gamma"} |->
                   IF b = "Theta" THEN t ELSE IF b = "Beta" THEN be ELSE 0] :
               <<t, be>> \in {<<3, 1>>, <<0, 1>>, <<0, 0>>}}
PulledValues == {1}
WindowSeconds == {2, 4}   \* int(self.fs * 2) in EEGAnalyzer, int(self.fs * 4) in the monitors

----------------------------------------------------------------------------
(* numpy helpers used by update_buffer *)

Min(a, b) == IF a < b THEN a ELSE b

\* np.zeros(n)
Zeros(n) == [j \in 1..n |-> 0]

\* np.roll(row, -n): element j of the result is element (j + n) mod len of row
RollTowardsOldest(row, n) == [j \in 1..Len(row) |-> row[((j - 1 + (Len(row) - (n % Len(row)))) % Len(row)) + 1]]

Roll(row, n) == [j \in 1..Len(row) |-> row[((j - 1 + n) % Len(row)) + 1]]

\* new_data.shape
Samples(data) == Len(data)
Width(data) == IF Len(data) = 0 THEN 0 ELSE Len(data[1])
\* new_data.size
Size(data) == Samples(data) * Width(data)

\* number of columns selected by the slice [:, -n:] of a row of length len
SliceLen(len, n) == Min(n, len)

\* can new_data.T, of shape (Width, Samples), be broadcast into shape (ch, L)
Broadcastable(data, ch, L) ==
    /\ (Samples(data) = L \/ Samples(data) = 1)
    /\ (Width(data) = ch \/ Width(data) = 1)

\* element (c, j) of new_data.T after broadcasting
Transposed(data, c, j) ==
    data[IF Samples(data) = 1 THEN 1 ELSE j][IF Width(data) = 1 THEN 1 ELSE c]

\* row[-n:] = values, done in place: the row keeps its length
AssignTailGrowing(row, c, data) == row \o [j \in 1..Samples(data) |-> Transposed(data, c, j)]

AssignTail(row, c, data) ==
    LET L == SliceLen(Len(row), Samples(data))
    IN  SubSeq(row, 1, Len(row) - L) \o [j \in 1..L |-> Transposed(data, c, j)]

\* the buffer update_buffer leaves behind
UpdateBufferResult(buf, data) ==
    IF Size(data) > 0
    THEN LET rolled == [c \in DOMAIN buf |-> Roll(buf[c], Samples(data))]
         IN  IF Broadcastable(data, Cardinality(DOMAIN buf), SliceLen(Len(buf[1]), Samples(data)))
             THEN [c \in DOMAIN buf |-> AssignTail(rolled[c], c, data)]
             ELSE rolled
    ELSE buf

\* the exception update_buffer ends with
UpdateBufferRaises(buf, data) ==
    IF Size(data) > 0
       /\ ~Broadcastable(data, Cardinality(DOMAIN buf), SliceLen(Len(buf[1]), Samples(data)))
    THEN "ValueError"
    ELSE "none"

LastN(s, n) == IF Len(s) <= n THEN s ELSE SubSeq(s, Len(s) - n + 1, Len(s))

WellFormed(data, ch) == Samples(data) >= 1 /\ Width(data) = ch

Column(data, c) == [i \in 1..Len(data) |-> data[i][c]]

----------------------------------------------------------------------------
(* Values the variables have while their part of the program is not run *)

IdleBuffer ==
    /\ fs \in SampleRates
    /\ channel_count = 2
    /\ buffer_size = fs * 4
    /\ eeg_buffer = [c \in 1..channel_count |-> Zeros(buffer_size)]
    /\ new_data = <<>>
    /\ raised = "none"

IdleClassifier ==
    /\ band_powers = [b \in {"Delta", "Theta", "Alpha", "Beta", "Gamma"} |-> 0]
    /\ state_info = None

IdleSmoother ==
    /\ state_history = <<>>
    /\ smoothed_state = None
    /\ pushed = <<>>
    /\ run_log = <<>>
    /\ prev_log = <<>>

IdlePipeline ==
    /\ now = 0
    /\ last_update_time = 0
    /\ is_connected = TRUE
    /\ result = None
    /\ pull = "none"
    /\ emitted_at = <<>>
    /\ inlet = "open"

IdleSpectrum ==
    /\ fft_data = None
    /\ computed = None

IdleBrainState ==
    /\ results = None
    /\ brain_state = None
    /\ channel_names = <<>>

IdleRecorder ==
    /\ is_recording = FALSE
    /\ recorded_data = <<>>
    /\ recorded_timestamps = <<>>
    /\ should_quit = FALSE
    /\ plot_returned = "none"
    /\ saved = 0

IdleRun ==
    /\ pc = "none"
    /\ current_time = 0

----------------------------------------------------------------------------
(* update_buffer called on its own *)

Chunks == UNION {[1..n -> [1..w -> SampleValues]] : n \in 0..MaxChunk, w \in ChunkWidths}

InitBuffer ==
    /\ IdlePipeline
    /\ fs \in SampleRates
    /\ channel_count \in ChannelCounts
    /\ \E w \in WindowSeconds : buffer_size = fs * w
    /\ eeg_buffer = [c \in 1..channel_count |-> Zeros(buffer_size)]
    /\ new_data = <<>>
    /\ raised = "none"
    /\ IdleClassifier
    /\ IdleSmoother
    /\ IdleSpectrum
    /\ IdleBrainState
    /\ IdleRecorder
    /\ IdleRun
    /\ appended = 0

update_buffer(data) ==
    /\ new_data' = data
    /\ eeg_buffer' = UpdateBufferResult(eeg_buffer, data)
    /\ raised' = UpdateBufferRaises(eeg_buffer, data)
    /\ UNCHANGED <<fs, channel_count, buffer_size, clsvars, smvars, pipevars>>
    /\ UNCHANGED <<spvars, bsvars, recvars, runvars, appended>>

NextBuffer == \E data \in Chunks : update_buffer(data)

SpecBuffer == InitBuffer /\ [][NextBuffer]_vars

\* C1: after any sequence of update_buffer calls, with chunks of any size,
\* every channel row of eeg_buffer has exactly buffer_size samples and the
\* number of channels is unchanged.
BufferShapeFixed ==
    /\ DOMAIN eeg_buffer = 1..channel_count
    /\ \A c \in DOMAIN eeg_buffer : Len(eeg_buffer[c]) = buffer_size

OversizedChunkSeen ==
    /\ Samples(new_data) > buffer_size
    /\ Width(new_data) = channel_count
    /\ \A c \in DOMAIN eeg_buffer : Len(eeg_buffer[c]) = buffer_size

\* C2: a chunk of buffer_size samples or more is accepted and leaves each
\* channel equal to the last buffer_size samples of that chunk, in order.
LargeChunkKeepsItsTail ==
    (WellFormed(new_data, channel_count) /\ Samples(new_data) >= buffer_size)
        => /\ raised = "none"
           /\ \A c \in DOMAIN eeg_buffer :
                 eeg_buffer[c] = LastN(Column(new_data, c), buffer_size)

\* C3: eviction is oldest first: a chunk of k samples, 1 <= k <= buffer_size,
\* leaves each channel equal to the last buffer_size - k samples of the old
\* window followed by the k samples of the chunk in arrival order.
OldestFirstStep ==
    (WellFormed(new_data', channel_count) /\ Samples(new_data') <= buffer_size)
        => \A c \in DOMAIN eeg_buffer :
              eeg_buffer'[c] = SubSeq(eeg_buffer[c], Samples(new_data') + 1, buffer_size)
                                 \o Column(new_data', c)

OldestFirstEviction == [][OldestFirstStep]_vars

OlderSampleKept ==
    /\ WellFormed(new_data, channel_count)
    /\ Samples(new_data) = 1
    /\ buffer_size = 4
    /\ raised = "none"
    /\ eeg_buffer[1] = <<0, 1, 0, new_data[1][1]>>

----------------------------------------------------------------------------
(* analyze_cognitive_state *)

Bands == {"Delta", "Theta", "Alpha", "Beta", "Gamma"}

\* sum(band_powers.values())
TotalPower(bp) == bp["Delta"] + bp["Theta"] + bp["Alpha"] + bp["Beta"] + bp["Gamma"]

\* a quotient is kept as <<numerator, denominator>>, denominator > 0
RelativePowersOverMore(bp) ==
    IF TotalPower(bp) > 0
    THEN [b \in Bands |-> <<bp[b], TotalPower(bp) + 1>>]
    ELSE [b \in Bands |-> <<0, 1>>]

RelativePowers(bp) ==
    IF TotalPower(bp) > 0
    THEN [b \in Bands |-> <<bp[b], TotalPower(bp)>>]
    ELSE [b \in Bands |-> <<0, 1>>]

\* band_powers[num] / band_powers['Beta'] if band_powers['Beta'] > 0 else 0
BetaRatioUnguarded(bp, num) == <<bp[num], IF bp["Beta"] > 0 THEN bp["Beta"] ELSE 1>>

BetaRatio(bp, num) == IF bp["Beta"] > 0 THEN <<bp[num], bp["Beta"]>> ELSE <<0, 1>>

\* q > n/d and q < n/d for a quotient q
Gt(q, n, d) == q[1] * d > n * q[2]
Lt(q, n, d) == q[1] * d < n * q[2]

StateInfo(st, level, tb, ab, rel) ==
    [state |-> st, alert_level |-> level,
     details |-> [theta_beta_ratio |-> tb, alpha_beta_ratio |-> ab, relative_powers |-> rel]]

AnalyzeDeltaFirst(bp) ==
    LET rel == RelativePowers(bp)
        tb == BetaRatio(bp, "Theta")
        ab == BetaRatio(bp, "Alpha")
    IN  IF Gt(rel["Delta"], 2, 5) THEN StateInfo("MICROSLEEP", 1, tb, ab, rel)
        ELSE IF Gt(tb, 5, 2) THEN StateInfo("DROWSY", 1, tb, ab, rel)
        ELSE IF Gt(rel["Beta"], 3, 10) /\ Gt(rel["Gamma"], 3, 20)
             THEN StateInfo("HIGHLY_ALERT", 3, tb, ab, rel)
        ELSE IF Gt(rel["Beta"], 1, 4) THEN StateInfo("ALERT", 3, tb, ab, rel)
        ELSE IF Gt(ab, 3, 5) /\ Lt(ab, 3, 2) THEN StateInfo("RELAXED", 2, tb, ab, rel)
        ELSE StateInfo("NORMAL", 2, tb, ab, rel)

AnalyzeCognitiveState(bp) ==
    LET rel == RelativePowers(bp)
        tb == BetaRatio(bp, "Theta")
        ab == BetaRatio(bp, "Alpha")
    IN  IF Gt(tb, 5, 2) THEN StateInfo("DROWSY", 1, tb, ab, rel)
        ELSE IF Gt(rel["Delta"], 2, 5) THEN StateInfo("MICROSLEEP", 1, tb, ab, rel)
        ELSE IF Gt(rel["Beta"], 3, 10) /\ Gt(rel["Gamma"], 3, 20)
             THEN StateInfo("HIGHLY_ALERT", 3, tb, ab, rel)
        ELSE IF Gt(rel["Beta"], 1, 4) THEN StateInfo("ALERT", 3, tb, ab, rel)
        ELSE IF Gt(ab, 3, 5) /\ Lt(ab, 3, 2) THEN StateInfo("RELAXED", 2, tb, ab, rel)
        ELSE StateInfo("NORMAL", 2, tb, ab, rel)

\* the band powers handed to the call are any non-negative values up to MaxPower
InitClassify ==
    /\ IdlePipeline
    /\ IdleBuffer
    /\ band_powers \in [Bands -> 0..MaxPower]
    /\ state_info = None
    /\ IdleSmoother
    /\ IdleSpectrum
    /\ IdleBrainState
    /\ IdleRecorder
    /\ IdleRun
    /\ appended = 0

analyze_cognitive_state ==
    /\ state_info' = AnalyzeCognitiveState(band_powers)
    /\ UNCHANGED <<band_powers, bufvars, smvars, pipevars>>
    /\ UNCHANGED <<spvars, bsvars, recvars, runvars, appended>>

NextClassify == analyze_cognitive_state

SpecClassify == InitClassify /\ [][NextClassify]_vars

\* the cascade of the specification, in rule order: <<condition, state, alert level>>
CascadeRules(bp) ==
    LET total == TotalPower(bp)
        beta == bp["Beta"]
    IN  << <<beta > 0 /\ 2 * bp["Theta"] > 5 * beta, "DROWSY", 1>>,
           <<total > 0 /\ 5 * bp["Delta"] > 2 * total, "MICROSLEEP", 1>>,
           <<total > 0 /\ 10 * beta > 3 * total /\ 20 * bp["Gamma"] > 3 * total,
             "HIGHLY_ALERT", 3>>,
           <<total > 0 /\ 4 * beta > total, "ALERT", 3>>,
           <<beta > 0 /\ 5 * bp["Alpha"] > 3 * beta /\ 2 * bp["Alpha"] < 3 * beta,
             "RELAXED", 2>>,
           <<TRUE, "NORMAL", 2>> >>

FirstMatch(rules) == CHOOSE i \in 1..Len(rules) : rules[i][1] /\ \A j \in 1..(i - 1) : ~rules[j][1]

\* C5: analyze_cognitive_state returns the state and alert level of the first
\* rule of the ordered cascade that matches; theta/beta > 2.5 gives DROWSY
\* whatever the other band powers are.
FirstMatchingRuleWins ==
    state_info # None =>
        LET rules == CascadeRules(band_powers)
            r == rules[FirstMatch(rules)]
        IN  /\ state_info.state = r[2]
            /\ state_info.alert_level = r[3]
            /\ (2 * band_powers["Theta"] > 5 * band_powers["Beta"] /\ band_powers["Beta"] > 0)
                  => (state_info.state = "DROWSY" /\ state_info.alert_level = 1)

DrowsyOverridesLaterRules ==
    /\ state_info # None
    /\ state_info.state = "DROWSY"
    /\ 5 * band_powers["Delta"] > 2 * TotalPower(band_powers)

\* the sum of two quotients, and of the five relative powers
AddQ(p, q) == <<p[1] * q[2] + q[1] * p[2], p[2] * q[2]>>

SumOfRelativePowers(rel) ==
    AddQ(rel["Delta"], AddQ(rel["Theta"], AddQ(rel["Alpha"], AddQ(rel["Beta"], rel["Gamma"]))))

\* C16: the relative powers computed by analyze_cognitive_state are each
\* band's power over the total and sum to 1 over the five bands when the total
\* power is positive, and are all 0 when the total power is 0.
RelativePowersSumToOne ==
    state_info # None =>
        LET rel == state_info.details.relative_powers
            total == TotalPower(band_powers)
            sum == SumOfRelativePowers(rel)
        IN  IF total > 0
            THEN /\ sum[1] = sum[2]
                 /\ \A b \in Bands : rel[b][2] > 0 /\ rel[b][1] * total = band_powers[b] * rel[b][2]
            ELSE \A b \in Bands : rel[b][2] > 0 /\ rel[b][1] = 0

UnevenRelativePowers ==
    /\ state_info # None
    /\ band_powers["Delta"] = 1
    /\ band_powers["Beta"] = 2
    /\ band_powers["Gamma"] = 0
    /\ TotalPower(band_powers) = 4
    /\ state_info.details.relative_powers["Beta"] = <<2, 4>>

\* C26: with a Beta power of 0, analyze_cognitive_state returns MICROSLEEP
\* when Delta is more than 0.4 of the total power and NORMAL otherwise,
\* whatever the other powers are; all-zero powers give NORMAL, alert level 2.
BetaZeroIsMicrosleepOrNormal ==
    (state_info # None /\ band_powers["Beta"] = 0) =>
        /\ state_info.state \notin {"DROWSY", "HIGHLY_ALERT", "ALERT", "RELAXED"}
        /\ state_info.state =
              IF 5 * band_powers["Delta"] > 2 * TotalPower(band_powers)
              THEN "MICROSLEEP" ELSE "NORMAL"
        /\ TotalPower(band_powers) = 0
              => (state_info.state = "NORMAL" /\ state_info.alert_level = 2)

ThetaWithoutBeta ==
    /\ state_info # None
    /\ band_powers["Beta"] = 0
    /\ band_powers["Theta"] = 5
    /\ band_powers["Alpha"] = 1
    /\ band_powers["Gamma"] = 2
    /\ band_powers["Delta"] = 0
    /\ state_info.state = "NORMAL"

----------------------------------------------------------------------------
(* get_smoothed_state *)

Range(f) == {f[i] : i \in DOMAIN f}

\* list.count
Count(hist, x) == Cardinality({i \in DOMAIN hist : hist[i] = x})

\* state_history.append(label), then pop(0) when longer than avg_window
HistoryDroppingNewest(hist, label) ==
    LET a == Append(hist, label)
    IN  IF Len(a) > avg_window THEN SubSeq(a, 1, Len(a) - 1) ELSE a

HistoryAfterPush(hist, label) ==
    LET a == Append(hist, label)
    IN  IF Len(a) > avg_window THEN Tail(a) ELSE a

\* the orders in which iterating over set(state_history) can yield its elements:
\* the labels are strings, whose hashes differ from process to process
IterationOrders(S) ==
    {o \in [1..Cardinality(S) -> S] : \A i, j \in DOMAIN o : i # j => o[i] # o[j]}

\* max(order, key=hist.count): the first element whose key no other exceeds
MinByCount(order, hist) ==
    order[CHOOSE i \in DOMAIN order :
            /\ \A j \in DOMAIN order : Count(hist, order[j]) >= Count(hist, order[i])
            /\ \A j \in 1..(i - 1) : Count(hist, order[j]) > Count(hist, order[i])]

MaxByCount(order, hist) ==
    order[CHOOSE i \in DOMAIN order :
            /\ \A j \in DOMAIN order : Count(hist, order[j]) <= Count(hist, order[i])
            /\ \A j \in 1..(i - 1) : Count(hist, order[j]) < Count(hist, order[i])]

SmootherInputs == {AnalyzeCognitiveState(bp) : bp \in PushPowers}

InitSmoother ==
    /\ IdlePipeline
    /\ IdleBuffer
    /\ IdleClassifier
    /\ IdleSmoother
    /\ IdleSpectrum
    /\ IdleBrainState
    /\ IdleRecorder
    /\ IdleRun
    /\ appended = 0

get_smoothed_state(current_state) ==
    /\ Len(pushed) < (IF prev_log = <<>> THEN MaxPushes ELSE MaxReplay)
    /\ state_history' = HistoryAfterPush(state_history, current_state.state)
    /\ \E order \in IterationOrders(Range(state_history')) :
          smoothed_state' = [current_state EXCEPT !.state = MaxByCount(order, state_history')]
    /\ pushed' = Append(pushed, current_state.state)
    /\ run_log' = IF Len(run_log) < MaxReplay
                  THEN Append(run_log, <<current_state.state, smoothed_state'.state>>)
                  ELSE run_log
    /\ UNCHANGED <<bufvars, clsvars, prev_log, pipevars>>
    /\ UNCHANGED <<spvars, bsvars, recvars, runvars, appended>>

\* the process ends and a new one constructs the monitor again
Restart ==
    /\ pushed # <<>>
    /\ prev_log = <<>>
    /\ state_history' = <<>>
    /\ smoothed_state' = None
    /\ pushed' = <<>>
    /\ prev_log' = run_log
    /\ run_log' = <<>>
    /\ UNCHANGED <<bufvars, clsvars, pipevars>>
    /\ UNCHANGED <<spvars, bsvars, recvars, runvars, appended>>

NextSmoother ==
    \/ \E current_state \in SmootherInputs : get_smoothed_state(current_state)
    \/ Restart

SpecSmoother == InitSmoother /\ [][NextSmoother]_vars

\* C6: state_history holds exactly the last min(n, avg_window) raw labels
\* pushed, in push order; it is never longer than avg_window and the entry
\* evicted is the oldest.
HistoryIsLastPushed ==
    /\ Len(state_history) = Min(Len(pushed), avg_window)
    /\ Len(state_history) <= avg_window
    /\ state_history = LastN(pushed, avg_window)

OldestEvicted ==
    /\ Len(pushed) > avg_window
    /\ pushed[1] # pushed[Len(pushed)]
    /\ state_history = Tail(pushed)

\* C7: the label get_smoothed_state returns occurs in state_history a maximal
\* number of times; pushing A, A, B, A, B returns A on the last push.
ReturnsAMostFrequentLabel ==
    smoothed_state # None =>
        /\ smoothed_state.state \in Range(state_history)
        /\ \A x \in Range(state_history) :
              Count(state_history, x) <= Count(state_history, smoothed_state.state)
        /\ (/\ Len(pushed) = 5
            /\ pushed[1] # pushed[3]
            /\ pushed = <<pushed[1], pushed[1], pushed[3], pushed[1], pushed[3]>>)
              => smoothed_state.state = pushed[1]

ThreeBeatTwo ==
    /\ Len(pushed) = 5
    /\ pushed[1] # pushed[3]
    /\ pushed = <<pushed[1], pushed[1], pushed[3], pushed[1], pushed[3]>>
    /\ smoothed_state # None
    /\ smoothed_state.state = pushed[1]

\* the labels that share the maximum count in hist
MostFrequent(hist) ==
    {x \in Range(hist) : \A y \in Range(hist) : Count(hist, y) <= Count(hist, x)}

FirstIndex(hist, x) == CHOOSE i \in DOMAIN hist : hist[i] = x /\ \A j \in 1..(i - 1) : hist[j] # x

\* C8: when several labels share the maximum count, the label returned is
\* the tied label whose first occurrence in state_history is earliest.
TieGoesToEarliest ==
    smoothed_state # None =>
        /\ smoothed_state.state \in MostFrequent(state_history)
        /\ \A x \in MostFrequent(state_history) :
              FirstIndex(state_history, smoothed_state.state) <= FirstIndex(state_history, x)

\* C9: two processes that push the same sequence of raw labels, each from an
\* empty history, get the same smoothed label at every push.
SamePushesSameLabels ==
    \A i \in 1..Min(Len(run_log), Len(prev_log)) :
        (\A j \in 1..i : run_log[j][1] = prev_log[j][1]) => run_log[i][2] = prev_log[i][2]

----------------------------------------------------------------------------
(* CognitiveStateMonitor.get_current_state, called by the loop of __main__ *)

ErrorResult == [state |-> "ERROR", alert_level |-> 1, details |-> [error |-> "str(e)"]]

\* current_time - self.last_update_time >= self.update_interval
DueEveryTick(t, last) == t - last >= 0

Due(t, last) == t - last >= update_interval

PulledChunks == UNION {[1..n -> [1..w -> PulledValues]] : n \in 1..MaxChunk, w \in ChunkWidths}

Init ==
    /\ fs \in SampleRates
    /\ channel_count \in ChannelCounts
    /\ buffer_size = fs * 4
    /\ eeg_buffer = [c \in 1..channel_count |-> Zeros(buffer_size)]
    /\ new_data = <<>>
    /\ raised = "none"
    /\ IdleClassifier
    /\ IdleSmoother
    /\ IdlePipeline
    /\ IdleSpectrum
    /\ IdleBrainState
    /\ IdleRecorder
    /\ IdleRun
    /\ appended = 0

\* the call ends in the except clause
ReturnErrorStampsTime ==
    /\ is_connected' = FALSE
    /\ result' = ErrorResult
    /\ last_update_time' = now
    /\ UNCHANGED <<clsvars, smvars, emitted_at>>

ReturnError ==
    /\ is_connected' = FALSE
    /\ result' = ErrorResult
    /\ UNCHANGED <<clsvars, smvars, last_update_time, emitted_at>>

\* inlet.pull_chunk() raises
PullFails ==
    /\ pull' = "raise"
    /\ raised' = "Exception"
    /\ ReturnError
    /\ new_data' = <<>>
    /\ UNCHANGED <<eeg_buffer, appended>>

\* inlet.pull_chunk() returns no samples
PullEmptyStampsTime ==
    /\ pull' = "empty"
    /\ raised' = "none"
    /\ result' = None
    /\ new_data' = <<>>
    /\ last_update_time' = IF Due(now, last_update_time) THEN now ELSE last_update_time
    /\ UNCHANGED <<eeg_buffer, clsvars, smvars, is_connected, emitted_at, appended>>

PullEmpty ==
    /\ pull' = "empty"
    /\ raised' = "none"
    /\ result' = None
    /\ new_data' = <<>>
    /\ UNCHANGED <<eeg_buffer, clsvars, smvars, last_update_time, is_connected, emitted_at>>
    /\ UNCHANGED appended

\* the classification stage: average, analyze, smooth, return
ClassifyReconnects ==
    IF channel_count - 1 = 0
    THEN /\ raised' = "ZeroDivisionError"
         /\ ReturnError
    ELSE \E avg_powers \in PushPowers :
            LET current_state == AnalyzeCognitiveState(avg_powers)
            IN  /\ raised' = "none"
                /\ band_powers' = avg_powers
                /\ state_info' = current_state
                /\ state_history' = HistoryAfterPush(state_history, current_state.state)
                /\ \E order \in IterationOrders(Range(state_history')) :
                      smoothed_state' =
                          [current_state EXCEPT !.state = MaxByCount(order, state_history')]
                /\ pushed' = Append(pushed, current_state.state)
                /\ UNCHANGED <<run_log, prev_log>>
                /\ last_update_time' = now
                /\ result' = smoothed_state'
                /\ emitted_at' = Append(emitted_at, now)
                /\ is_connected' = TRUE

Classify ==
    IF channel_count - 1 = 0
    THEN /\ raised' = "ZeroDivisionError"
         /\ ReturnError
    ELSE \E avg_powers \in PushPowers :
            LET current_state == AnalyzeCognitiveState(avg_powers)
            IN  /\ raised' = "none"
                /\ band_powers' = avg_powers
                /\ state_info' = current_state
                /\ state_history' = HistoryAfterPush(state_history, current_state.state)
                /\ \E order \in IterationOrders(Range(state_history')) :
                      smoothed_state' =
                          [current_state EXCEPT !.state = MaxByCount(order, state_history')]
                /\ pushed' = Append(pushed, current_state.state)
                /\ UNCHANGED <<run_log, prev_log>>
                /\ last_update_time' = now
                /\ result' = smoothed_state'
                /\ emitted_at' = Append(emitted_at, now)
                /\ UNCHANGED is_connected

\* inlet.pull_chunk() returns samples
PullChunk(chunk) ==
    /\ pull' = "chunk"
    /\ new_data' = chunk
    /\ eeg_buffer' = UpdateBufferResult(eeg_buffer, chunk)
    /\ appended' = IF UpdateBufferRaises(eeg_buffer, chunk) = "none"
                   THEN Min(appended + Samples(chunk), buffer_size)
                   ELSE appended
    /\ IF UpdateBufferRaises(eeg_buffer, chunk) # "none"
       THEN /\ raised' = UpdateBufferRaises(eeg_buffer, chunk)
            /\ ReturnError
       ELSE IF Due(now, last_update_time)
       THEN Classify
       ELSE /\ raised' = "none"
            /\ result' = None
            /\ UNCHANGED <<clsvars, smvars, last_update_time, is_connected, emitted_at>>

\* one iteration of the loop: get_current_state(), then time.sleep(0.1)
get_current_state ==
    /\ now < MaxTime
    /\ \/ PullFails
       \/ PullEmpty
       \/ \E chunk \in PulledChunks : PullChunk(chunk)
    /\ now' = now + TickPeriod
    /\ UNCHANGED <<fs, channel_count, buffer_size, inlet>>
    /\ UNCHANGED <<spvars, bsvars, recvars, runvars>>

Next == get_current_state

Spec == Init /\ [][Next]_vars

(***************************************************************************)
(* CognitiveStateMonitor as an object driven through its public methods    *)
(* ("Main method to be called from Android Studio"): get_current_state at  *)
(* times the caller chooses, is_device_connected, disconnect.              *)
(***************************************************************************)

\* the time between two calls of the caller
CallGaps == {update_interval \div 2, update_interval}

is_device_connected == is_connected

\* self.inlet is None after disconnect(): None.pull_chunk() raises inside the try
PullOnNone ==
    /\ pull' = "raise"
    /\ raised' = "AttributeError"
    /\ ReturnError
    /\ new_data' = <<>>
    /\ UNCHANGED <<eeg_buffer, appended>>

CallGetCurrentState ==
    /\ now < MaxTime
    /\ IF inlet = "None"
       THEN PullOnNone
       ELSE \/ PullFails
            \/ PullEmpty
            \/ \E chunk \in PulledChunks : PullChunk(chunk)
    /\ \E gap \in CallGaps : now' = now + gap
    /\ UNCHANGED <<fs, channel_count, buffer_size, inlet>>
    /\ UNCHANGED <<spvars, bsvars, recvars, runvars>>

disconnect ==
    /\ is_connected' = FALSE
    /\ inlet' = "None"
    /\ UNCHANGED <<bufvars, clsvars, smvars, now, last_update_time, result, pull, emitted_at>>
    /\ UNCHANGED <<spvars, bsvars, recvars, runvars, appended>>

NextConnection ==
    \/ CallGetCurrentState
    \/ disconnect

SpecConnection == Init /\ [][NextConnection]_vars

\* a step that is a call of get_current_state
CallStep == now' # now

\* C25: is_connected is True after construction; once is_device_connected()
\* returns False it returns False on every later call, whatever later calls of
\* get_current_state return; a call that returns ERROR and disconnect() set it
\* False; after disconnect() every get_current_state call returns the ERROR
\* sentinel and changes neither eeg_buffer nor state_history.
ConnectionMonotoneStep ==
    /\ ~is_device_connected => ~is_device_connected'
    /\ (CallStep /\ result' = ErrorResult) => ~is_device_connected'
    /\ inlet' = "None" => ~is_device_connected'
    /\ (CallStep /\ inlet = "None") =>
           /\ result' = ErrorResult
           /\ eeg_buffer' = eeg_buffer
           /\ state_history' = state_history

Mismatched(data, ch) == Samples(data) >= 1 /\ Width(data) # ch

\* C4: a chunk whose channel count differs from the buffer's is dropped:
\* eeg_buffer is left as it was, nothing is pushed to the smoother and no
\* classification result is produced.
MismatchedChunkStep ==
    (pull' = "chunk" /\ now' # now /\ Mismatched(new_data', channel_count))
        => /\ eeg_buffer' = eeg_buffer
           /\ state_history' = state_history
           /\ emitted_at' = emitted_at

MismatchedChunkDropped == [][MismatchedChunkStep]_vars

\* C14: a tick whose pull returns an empty chunk leaves eeg_buffer,
\* state_history, last_update_time and the connectivity flag unchanged,
\* returns no result (None) and raises no error, also when a result is due.
EmptyChunkStep ==
    (pull' = "empty" /\ now' # now)
        => /\ eeg_buffer' = eeg_buffer
           /\ state_history' = state_history
           /\ last_update_time' = last_update_time
           /\ is_connected' = is_connected
           /\ emitted_at' = emitted_at
           /\ result' = None
           /\ raised' = "none"

EmptyChunkChangesNothing == [][EmptyChunkStep]_vars

EmptyChunkWhenDue ==
    /\ pull = "empty"
    /\ Due(now - TickPeriod, last_update_time)
    /\ state_history # <<>>
    /\ is_connected
    /\ result = None

\* C12: no classification result is returned (and no analysis is run) before
\* the buffer has been filled once, that is before buffer_size samples have
\* been written to it since start.
NoResultBeforeBufferFilled ==
    (emitted_at # <<>> \/ state_info # None) => appended >= buffer_size

\* the number of classification results returned in the k-th 3-second window
\* since construction, the window ending at time k * update_interval
EmittedInWindow(k) ==
    Cardinality({i \in DOMAIN emitted_at :
                    /\ emitted_at[i] > (k - 1) * update_interval
                    /\ emitted_at[i] <= k * update_interval})

\* the last call was made at time now - TickPeriod: the windows that ended by then
WindowsOver == IF now = 0 THEN {} ELSE 1..((now - TickPeriod) \div update_interval)

\* C10 as stated: exactly one classification result in each 3-second window.
ExactlyOnePerWindow == \A k \in WindowsOver : EmittedInWindow(k) = 1

\* C10: never more than one classification result in a 3-second window: any
\* two results are at least update_interval apart.
AtMostOnePerWindow ==
    /\ \A i, j \in DOMAIN emitted_at :
          i < j => emitted_at[j] - emitted_at[i] >= update_interval
    /\ \A k \in 1..(MaxTime \div update_interval + 1) : EmittedInWindow(k) <= 1

TwoResultsEmitted ==
    /\ Len(emitted_at) = 2
    /\ emitted_at[2] - emitted_at[1] = update_interval
    /\ result # None
    /\ result.state # "ERROR"

\* the alert level that goes with a state
AlertLevelOf(st) ==
    IF st \in {"DROWSY", "MICROSLEEP", "ERROR"} THEN 1
    ELSE IF st \in {"RELAXED", "NORMAL"} THEN 2
    ELSE 3

\* C21: in every result returned by get_current_state, also a smoothed one,
\* the alert level is the one of the state: 1 for DROWSY, MICROSLEEP and
\* ERROR, 2 for RELAXED and NORMAL, 3 for HIGHLY_ALERT and ALERT.
AlertLevelAgreesWithState ==
    result # None => result.alert_level = AlertLevelOf(result.state)

\* C22: the averaging over all channels but the last completes without
\* failure for every stream with channel_count >= 1, a single-channel stream
\* included, and the tick goes on to classify.
AveragingCompletes ==
    (pull = "chunk" /\ channel_count >= 1) => raised # "ZeroDivisionError"

EmissionStep ==
    /\ last_update_time' >= last_update_time
    /\ last_update_time' # last_update_time
          => /\ emitted_at' = Append(emitted_at, now)
             /\ last_update_time' = now
             /\ result' \notin {None, ErrorResult}
    /\ emitted_at' # emitted_at => last_update_time' = now
    /\ (now' # now /\ result' \in {None, ErrorResult})
          => (last_update_time' = last_update_time /\ emitted_at' = emitted_at)

\* C24: two consecutive classification results are at least update_interval
\* apart: last_update_time changes only on a tick that emits, is set to the
\* time of that tick and never decreases; a tick that returns None or ERROR
\* leaves it as it was.
EmissionsSpacedByInterval ==
    /\ [](\A i \in 1..(Len(emitted_at) - 1) :
             emitted_at[i + 1] - emitted_at[i] >= update_interval)
    /\ [][EmissionStep]_vars

ErrorAfterEmission ==
    /\ Len(emitted_at) = 1
    /\ result = ErrorResult
    /\ last_update_time = emitted_at[1]
    /\ now > last_update_time + update_interval

----------------------------------------------------------------------------
(* numpy floating point values: a non-negative rational n/d, inf or nan *)

Num(n, d) == [kind |-> "num", n |-> n, d |-> d]
Inf == [kind |-> "inf", n |-> 1, d |-> 0]
NaN == [kind |-> "nan", n |-> 0, d |-> 0]

\* a / b on numpy floats: a zero divisor raises nothing and gives inf or nan
Divide(a, b) ==
    IF a.kind = "nan" \/ b.kind = "nan" THEN NaN
    ELSE IF b.kind = "inf" THEN (IF a.kind = "inf" THEN NaN ELSE Num(0, 1))
    ELSE IF a.kind = "inf" THEN Inf
    ELSE IF b.n = 0 THEN (IF a.n = 0 THEN NaN ELSE Inf)
    ELSE Num(a.n * b.d, a.d * b.n)

\* a + b on numpy floats
Add(a, b) ==
    IF a.kind = "nan" \/ b.kind = "nan" THEN NaN
    ELSE IF a.kind = "inf" \/ b.kind = "inf" THEN Inf
    ELSE Num(a.n * b.d + b.n * a.d, a.d * b.d)

\* comparisons of a float with the decimal n/d; every comparison with nan is False
Less(a, n, d) == a.kind = "num" /\ a.n * d < n * a.d
Greater(a, n, d) == a.kind = "inf" \/ (a.kind = "num" /\ a.n * d > n * a.d)
AtMost(a, n, d) == a.kind = "num" /\ a.n * d <= n * a.d
AtLeast(a, n, d) == a.kind = "inf" \/ (a.kind = "num" /\ a.n * d >= n * a.d)

----------------------------------------------------------------------------
(* compute_band_powers *)

SpectrumRates == {1, 16, 128}    \* the nominal sampling rates considered, in Hz

\* self.freq_bands, the bounds counted in half hertz
freq_bands ==
    [b \in Bands |->
        CASE b = "Delta" -> <<1, 8>>
          [] b = "Theta" -> <<8, 16>>
          [] b = "Alpha" -> <<16, 26>>
          [] b = "Beta" -> <<26, 60>>
          [] b = "Gamma" -> <<60, 100>>]

RECURSIVE PowerOfTwoFrom(_, _)
PowerOfTwoFrom(p, n) == IF p >= n THEN p ELSE PowerOfTwoFrom(2 * p, n)

\* int(max(256, 2**np.ceil(np.log2(self.buffer_size))))
nfft(size) == IF PowerOfTwoFrom(1, size) > 256 THEN PowerOfTwoFrom(1, size) ELSE 256

\* np.fft.rfftfreq(n, d=1/rate): bin k is at k * rate / n Hz, kept as a quotient
rfftfreq(n, rate) == [k \in 0..(n \div 2) |-> <<k * rate, n>>]

\* the bins of signal.welch(x, fs, nperseg=fs)
WelchFreqs(rate) == rfftfreq(rate, rate)

\* (freqs >= low) & (freqs <= high)
FreqMask(freqs, band) ==
    {k \in DOMAIN freqs : /\ 2 * freqs[k][1] >= freq_bands[band][1] * freqs[k][2]
                          /\ 2 * freqs[k][1] <= freq_bands[band][2] * freqs[k][2]}

\* the spectra considered: the value base in every bin but peak_bin, which holds peak
FftAt(fd, k) == IF k = fd.peak_bin THEN fd.peak ELSE fd.base

\* np.abs(fft_data) ** 2
PowerSpectrum(fd, freqs) ==
    [k \in DOMAIN freqs |-> FftAt(fd, k)[1] * FftAt(fd, k)[1] + FftAt(fd, k)[2] * FftAt(fd, k)[2]]

RECURSIVE SumOver(_, _)
SumOver(ps, S) ==
    IF S = {} THEN 0
    ELSE LET k == CHOOSE x \in S : TRUE IN ps[k] + SumOver(ps, S \ {k})

\* np.mean(power_spectrum[freq_mask]): nan (and a warning) for an empty selection
Mean(ps, mask) == IF mask = {} THEN NaN ELSE Num(SumOver(ps, mask), Cardinality(mask))

BandMeans(fd, freqs) == [b \in Bands |-> Mean(PowerSpectrum(fd, freqs), FreqMask(freqs, b))]

\* the ratio keys of EEGAnalyzer.compute_band_powers: <<numerator, denominator>>
RatioKeys ==
    {"Alpha/Theta Ratio", "Alpha/Beta Ratio", "Theta/Beta Ratio", "Delta/Theta Ratio",
     "Gamma/Alpha Ratio"}

RatioBands ==
    [key \in RatioKeys |->
        CASE key = "Alpha/Theta Ratio" -> <<"Alpha", "Theta">>
          [] key = "Alpha/Beta Ratio" -> <<"Alpha", "Beta">>
          [] key = "Theta/Beta Ratio" -> <<"Theta", "Beta">>
          [] key = "Delta/Theta Ratio" -> <<"Delta", "Theta">>
          [] key = "Gamma/Alpha Ratio" -> <<"Gamma", "Alpha">>]

Ratios(means) == [key \in RatioKeys |-> Divide(means[RatioBands[key][1]], means[RatioBands[key][2]])]

PeakValues == {<<1, 1>>, <<0, -2>>, <<-1, 0>>}
BaseValues == {<<0, 0>>, <<0, -1>>}

InitSpectrum ==
    /\ fs \in SpectrumRates
    /\ channel_count = 2
    /\ buffer_size = fs * 4
    /\ eeg_buffer = [c \in 1..channel_count |-> Zeros(buffer_size)]
    /\ new_data = <<>>
    /\ raised = "none"
    /\ fft_data \in [peak_bin : 0..(nfft(buffer_size) \div 2), peak : PeakValues, base : BaseValues]
    /\ computed = None
    /\ IdleClassifier
    /\ IdleSmoother
    /\ IdlePipeline
    /\ IdleBrainState
    /\ IdleRecorder
    /\ IdleRun
    /\ appended = 0

\* CognitiveStateMonitor.compute_band_powers and AlertnessMonitor.compute_band_powers
compute_band_powers ==
    /\ computed = None
    /\ computed' = [by |-> "monitor",
                    band_powers |-> BandMeans(fft_data, rfftfreq(nfft(buffer_size), fs))]
    /\ UNCHANGED <<bufvars, clsvars, smvars, pipevars, fft_data, bsvars, recvars, runvars, appended>>

\* EEGAnalyzer.compute_band_powers: the band means and their ratios in one dictionary
EEGAnalyzer_compute_band_powers ==
    /\ computed = None
    /\ LET means == BandMeans(fft_data, WelchFreqs(fs))
       IN  computed' = [by |-> "EEGAnalyzer", band_powers |-> means, ratios |-> Ratios(means)]
    /\ UNCHANGED <<bufvars, clsvars, smvars, pipevars, fft_data, bsvars, recvars, runvars, appended>>

NextSpectrum == compute_band_powers \/ EEGAnalyzer_compute_band_powers

SpecSpectrum == InitSpectrum /\ [][NextSpectrum]_vars

\* the frequency bins the last call worked on, and those inside a band's closed interval
BinsOfCall == IF computed.by = "monitor" THEN rfftfreq(nfft(buffer_size), fs) ELSE WelchFreqs(fs)

BinsInside(band) ==
    {k \in DOMAIN BinsOfCall :
        /\ freq_bands[band][1] * BinsOfCall[k][2] <= 2 * BinsOfCall[k][1]
        /\ 2 * BinsOfCall[k][1] <= freq_bands[band][2] * BinsOfCall[k][2]}

\* C15: every cross-band ratio is numerator/denominator when the denominator
\* band power is > 0 and 0 otherwise, and is never inf or nan.
RatiosGuardZeroDenominator ==
    (computed # None /\ computed.by = "EEGAnalyzer") =>
        \A key \in RatioKeys :
            LET num == computed.band_powers[RatioBands[key][1]]
                den == computed.band_powers[RatioBands[key][2]]
                ratio == computed.ratios[key]
            IN  /\ ratio.kind = "num"
                /\ IF den.kind = "num" /\ den.n > 0
                   THEN num.kind = "num" /\ ratio.n * num.d * den.n = num.n * den.d * ratio.d
                   ELSE ratio.n = 0

\* C17: a band whose closed interval holds no frequency bin has power 0;
\* any other band has the arithmetic mean of the power of the bins inside
\* its interval, both bounds included.
EmptyBandIsZero ==
    computed # None =>
        \A b \in Bands :
            LET power == computed.band_powers[b]
                ps == PowerSpectrum(fft_data, BinsOfCall)
            IN  /\ power.kind = "num"
                /\ IF BinsInside(b) = {}
                   THEN power.n = 0
                   ELSE power.n * Cardinality(BinsInside(b)) = SumOver(ps, BinsInside(b)) * power.d

\* C18: every band power returned by the monitors' compute_band_powers is a
\* non-negative number, whatever the window.
BandPowersNonNegative ==
    (computed # None /\ computed.by = "monitor") =>
        \A b \in Bands : /\ computed.band_powers[b].kind = "num"
                         /\ computed.band_powers[b].d > 0
                         /\ computed.band_powers[b].n >= 0

----------------------------------------------------------------------------
(* EEGAnalyzer.determine_brain_state *)

\* the two thresholds compared with each averaged ratio: <<low, high>>, each n/d
Thresholds ==
    [key \in RatioKeys \ {"Gamma/Alpha Ratio"} |->
        CASE key = "Alpha/Theta Ratio" -> << <<3, 2>>, <<5, 2>> >>
          [] key = "Alpha/Beta Ratio" -> << <<1, 10>>, <<3, 10>> >>
          [] key = "Delta/Theta Ratio" -> << <<4, 1>>, <<10, 1>> >>
          [] key = "Theta/Beta Ratio" -> << <<1, 1>>, <<2, 1>> >>]

\* n/d moved by k twentieths
Shifted(q, k) == Num(20 * q[1] + k * q[2], 20 * q[2])

\* the <<AF7, AF8>> values considered for a ratio: equal values around and on
\* both thresholds, inf and nan, and unequal values whose mean is a threshold
ChannelPairs(key) ==
    LET low == Thresholds[key][1]
        high == Thresholds[key][2]
    IN  {<<v, v>> : v \in {Shifted(low, -1), Shifted(low, 0), Shifted(low, 1),
                           Shifted(high, 0), Shifted(high, 1), Inf, NaN}}
        \cup {<<Shifted(low, -1), Shifted(low, 1)>>, <<Num(0, 1), Num(2 * high[1], high[2])>>}

GammaAlphaPairs == {<<Num(1, 1), Num(3, 1)>>, <<NaN, Num(1, 1)>>}

\* dict.get(key, 0)
Get(dict, key) == IF key \in DOMAIN dict THEN dict[key] ELSE Num(0, 1)

\* (band_powers_af7.get(key, 0) + band_powers_af8.get(key, 0)) / 2
AveragedRatios(channels) ==
    [key \in RatioKeys |->
        Divide(Add(Get(channels["AF7"], key), Get(channels["AF8"], key)), Num(2, 1))]

DetermineBrainStateOpenBelow(channels) ==
    LET ratios == AveragedRatios(channels)
        at == ratios["Alpha/Theta Ratio"]
        ab == ratios["Alpha/Beta Ratio"]
        dt == ratios["Delta/Theta Ratio"]
        tb == ratios["Theta/Beta Ratio"]
    IN  [alertness_level |->
            IF Less(at, 3, 2) THEN "Relaxed"
            ELSE IF Greater(at, 3, 2) /\ AtMost(at, 5, 2) THEN "Moderately Alert"
            ELSE "Highly Alert",
         stress_level |->
            IF Greater(ab, 3, 10) THEN "Low Stress"
            ELSE IF AtLeast(ab, 1, 10) /\ AtMost(ab, 3, 10) THEN "Moderate Stress"
            ELSE "High Stress",
         fatigue_level |->
            IF Greater(dt, 10, 1) THEN "Sleepy"
            ELSE IF AtLeast(dt, 4, 1) /\ AtMost(dt, 10, 1) THEN "Tired"
            ELSE "Awake",
         focus_level |->
            IF Greater(tb, 2, 1) THEN "Distracted"
            ELSE IF AtLeast(tb, 1, 1) /\ AtMost(tb, 2, 1) THEN "Moderately Focused"
            ELSE "Highly Focused"]

DetermineBrainState(channels) ==
    LET ratios == AveragedRatios(channels)
        at == ratios["Alpha/Theta Ratio"]
        ab == ratios["Alpha/Beta Ratio"]
        dt == ratios["Delta/Theta Ratio"]
        tb == ratios["Theta/Beta Ratio"]
    IN  [alertness_level |->
            IF Less(at, 3, 2) THEN "Relaxed"
            ELSE IF AtLeast(at, 3, 2) /\ AtMost(at, 5, 2) THEN "Moderately Alert"
            ELSE "Highly Alert",
         stress_level |->
            IF Greater(ab, 3, 10) THEN "Low Stress"
            ELSE IF AtLeast(ab, 1, 10) /\ AtMost(ab, 3, 10) THEN "Moderate Stress"
            ELSE "High Stress",
         fatigue_level |->
            IF Greater(dt, 10, 1) THEN "Sleepy"
            ELSE IF AtLeast(dt, 4, 1) /\ AtMost(dt, 10, 1) THEN "Tired"
            ELSE "Awake",
         focus_level |->
            IF Greater(tb, 2, 1) THEN "Distracted"
            ELSE IF AtLeast(tb, 1, 1) /\ AtMost(tb, 2, 1) THEN "Moderately Focused"
            ELSE "Highly Focused"]

InitBrainState ==
    /\ IdleBuffer
    /\ IdleClassifier
    /\ IdleSmoother
    /\ IdlePipeline
    /\ IdleSpectrum
    /\ \E at \in ChannelPairs("Alpha/Theta Ratio"), ab \in ChannelPairs("Alpha/Beta Ratio"),
          dt \in ChannelPairs("Delta/Theta Ratio"), tb \in ChannelPairs("Theta/Beta Ratio"),
          ga \in GammaAlphaPairs :
          results = [ch \in {"AF7", "AF8"} |->
                        LET i == IF ch = "AF7" THEN 1 ELSE 2
                        IN  [key \in RatioKeys |->
                                CASE key = "Alpha/Theta Ratio" -> at[i]
                                  [] key = "Alpha/Beta Ratio" -> ab[i]
                                  [] key = "Delta/Theta Ratio" -> dt[i]
                                  [] key = "Theta/Beta Ratio" -> tb[i]
                                  [] key = "Gamma/Alpha Ratio" -> ga[i]]]
    /\ brain_state = None
    /\ channel_names = <<"AF7", "AF8">>
    /\ IdleRecorder
    /\ IdleRun
    /\ appended = 0

determine_brain_state ==
    /\ brain_state = None
    /\ brain_state' = DetermineBrainState(results)
    /\ UNCHANGED <<bufvars, clsvars, smvars, pipevars, spvars, results, channel_names, recvars,
                   runvars, appended>>

NextBrainState == determine_brain_state

SpecBrainState == InitBrainState /\ [][NextBrainState]_vars

----------------------------------------------------------------------------
(* EEGAnalyzer.run: pull a chunk, update the buffer, analyze_eeg,          *)
(* process_results, determine_brain_state, sleep; only KeyboardInterrupt   *)
(* is caught around the loop                                               *)

\* the channel labels of the stream; the last one is the auxiliary channel
NameLists == {<<"AF7", "AF8", "Right AUX">>, <<"TP9", "AF7", "Right AUX">>}

\* the numbers of samples pull_chunk delivers: none, some, and more than the buffer holds
AnalyzerChunkLengths == {0, 1, 2, 3}

AnalyzerChunks(ch) == UNION {[1..n -> [1..ch -> SampleValues]] : n \in AnalyzerChunkLengths}

\* np.any
NpAny(row) == \E j \in 1..Len(row) : row[j] # 0

\* the band_powers dict of a channel, as returned by compute_band_powers: the
\* ratios are all nan (every band empty or zero) or all numbers
AnalyzerRatios == {[key \in RatioKeys |-> NaN], [key \in RatioKeys |-> Num(2, 1)]}

\* results['channels'] of analyze_eeg: an entry for every channel but the last
\* whose row of the buffer is not all zeros
AnalyzeEeg(buf, names) ==
    LET analyzed == {names[i] : i \in {k \in 1..(Len(names) - 1) : NpAny(buf[k])}}
    IN  [analyzed -> AnalyzerRatios]

InitAnalyzer ==
    /\ fs \in SampleRates
    /\ channel_names \in NameLists
    /\ channel_count = Len(channel_names)
    /\ buffer_size = fs * 2
    /\ eeg_buffer = [c \in 1..channel_count |-> Zeros(buffer_size)]
    /\ new_data = <<>>
    /\ raised = "none"
    /\ IdleClassifier
    /\ IdleSmoother
    /\ IdlePipeline
    /\ IdleSpectrum
    /\ results = None
    /\ brain_state = None
    /\ IdleRecorder
    /\ pc = "loop"
    /\ current_time = 0
    /\ appended = 0

\* one iteration of `while True:` in run
EEGAnalyzer_run ==
    /\ pc = "loop"
    /\ \E chunk \in AnalyzerChunks(channel_count) :
          /\ new_data' = chunk
          /\ IF chunk = <<>>
             THEN /\ raised' = "none"
                  /\ UNCHANGED <<eeg_buffer, results, brain_state, pc>>
             ELSE /\ eeg_buffer' = UpdateBufferResult(eeg_buffer, chunk)
                  /\ IF UpdateBufferRaises(eeg_buffer, chunk) # "none"
                     THEN /\ raised' = UpdateBufferRaises(eeg_buffer, chunk)
                          /\ pc' = "crashed"
                          /\ UNCHANGED <<results, brain_state>>
                     ELSE IF ~(\E c \in 1..channel_count : NpAny(eeg_buffer'[c]))
                     THEN /\ raised' = "none"
                          /\ UNCHANGED <<results, brain_state, pc>>
                     ELSE \E channels \in AnalyzeEeg(eeg_buffer', channel_names) :
                             /\ results' = channels
                             /\ IF {"AF7", "AF8"} \subseteq DOMAIN channels
                                THEN /\ brain_state' = DetermineBrainState(channels)
                                     /\ raised' = "none"
                                     /\ UNCHANGED pc
                                ELSE \* results['channels']['AF7'] or ['AF8'] raises
                                     /\ raised' = "KeyError"
                                     /\ pc' = "crashed"
                                     /\ UNCHANGED brain_state
    /\ UNCHANGED <<fs, channel_count, buffer_size, channel_names, current_time, appended>>
    /\ UNCHANGED <<clsvars, smvars, pipevars, spvars, recvars>>

NextAnalyzer == EEGAnalyzer_run

SpecAnalyzer == InitAnalyzer /\ [][NextAnalyzer]_vars

\* C23: on a tick of EEGAnalyzer.run whose analysis has no entry for AF7 or for
\* AF8, no brain-state judgment is computed and the loop goes on to the next
\* tick without failing.
MissingChannelSkipped ==
    (results # None /\ ~({"AF7", "AF8"} \subseteq DOMAIN results)) =>
        (raised = "none" /\ pc = "loop")

\* the mean of the AF7 and AF8 values of a ratio, when both are numbers:
\* below, at least, at most, above the decimal n/d
BothReal(key) == results["AF7"][key].kind = "num" /\ results["AF8"][key].kind = "num"

TwiceMean(key) ==
    LET a == results["AF7"][key]
        b == results["AF8"][key]
    IN  <<a.n * b.d + b.n * a.d, a.d * b.d>>

MeanBelow(key, n, d) == BothReal(key) /\ TwiceMean(key)[1] * d < 2 * n * TwiceMean(key)[2]
MeanAbove(key, n, d) ==
    \/ BothReal(key) /\ TwiceMean(key)[1] * d > 2 * n * TwiceMean(key)[2]
    \/ /\ "inf" \in {results["AF7"][key].kind, results["AF8"][key].kind}
       /\ "nan" \notin {results["AF7"][key].kind, results["AF8"][key].kind}
MeanWithin(key, n1, d1, n2, d2) ==
    /\ BothReal(key)
    /\ TwiceMean(key)[1] * d1 >= 2 * n1 * TwiceMean(key)[2]
    /\ TwiceMean(key)[1] * d2 <= 2 * n2 * TwiceMean(key)[2]

\* C19: determine_brain_state judges each of the four levels from the mean of
\* the AF7 and AF8 values of its own ratio alone, with the stated thresholds:
\* alertness from Alpha/Theta (< 1.5, [1.5, 2.5], > 2.5), stress from
\* Alpha/Beta (> 0.3, [0.1, 0.3], else), fatigue from Delta/Theta (> 10,
\* [4, 10], else), focus from Theta/Beta (> 2, [1, 2], else).
BrainStateThresholds ==
    brain_state # None =>
        /\ MeanBelow("Alpha/Theta Ratio", 3, 2) => brain_state.alertness_level = "Relaxed"
        /\ MeanWithin("Alpha/Theta Ratio", 3, 2, 5, 2)
              => brain_state.alertness_level = "Moderately Alert"
        /\ MeanAbove("Alpha/Theta Ratio", 5, 2) => brain_state.alertness_level = "Highly Alert"
        /\ brain_state.stress_level =
              IF MeanAbove("Alpha/Beta Ratio", 3, 10) THEN "Low Stress"
              ELSE IF MeanWithin("Alpha/Beta Ratio", 1, 10, 3, 10) THEN "Moderate Stress"
              ELSE "High Stress"
        /\ brain_state.fatigue_level =
              IF MeanAbove("Delta/Theta Ratio", 10, 1) THEN "Sleepy"
              ELSE IF MeanWithin("Delta/Theta Ratio", 4, 1, 10, 1) THEN "Tired"
              ELSE "Awake"
        /\ brain_state.focus_level =
              IF MeanAbove("Theta/Beta Ratio", 2, 1) THEN "Distracted"
              ELSE IF MeanWithin("Theta/Beta Ratio", 1, 1, 2, 1) THEN "Moderately Focused"
              ELSE "Highly Focused"

MeanOnLowerThreshold ==
    /\ brain_state # None
    /\ results["AF7"]["Alpha/Theta Ratio"] = Shifted(<<3, 2>>, -1)
    /\ results["AF8"]["Alpha/Theta Ratio"] = Shifted(<<3, 2>>, 1)
    /\ brain_state.alertness_level = "Moderately Alert"
    /\ brain_state.stress_level = "Moderate Stress"
    /\ brain_state.fatigue_level = "Sleepy"
    /\ brain_state.focus_level = "Highly Focused"

----------------------------------------------------------------------------
(* EEGRecorder: run, update_plot and the key handler *)

Keys == {"r", "q", "x"}     \* the keys pressed: record, quit, any other key

\* the chunks pull_chunk hands to the recorder: one value per channel
RecorderChunks(ch) == UNION {[1..n -> [1..ch -> PulledValues]] : n \in 0..MaxChunk}

\* the timestamps pulled with a chunk of n samples: one per sample, the sample clock
Timestamps(n) == [i \in 1..n |-> appended + i]

\* self.buffers[ch_ix] = np.roll(self.buffers[ch_ix], -len(chunk)), then
\* self.buffers[ch_ix][-len(chunk):] = chunk[:, ch_ix]
PlotBuffer(row, chunk, c) ==
    [j \in 1..Len(row) |->
        IF j > Len(row) - Len(chunk)
        THEN chunk[j - (Len(row) - Len(chunk))][c]
        ELSE Roll(row, Len(chunk))[j]]

InitRecorder ==
    /\ fs \in SampleRates
    /\ channel_count = 2
    /\ buffer_size = fs * window_size
    /\ eeg_buffer = [c \in 1..channel_count |-> Zeros(buffer_size)]
    /\ new_data = <<>>
    /\ raised = "none"
    /\ IdleClassifier
    /\ IdleSmoother
    /\ IdlePipeline
    /\ IdleSpectrum
    /\ IdleBrainState
    /\ IdleRecorder
    /\ pc = "loop"
    /\ current_time = 0
    /\ appended = 0

\* save_recording writes a file: not for an empty recording ("No data to save"),
\* and df['timestamp'] = timestamps raises when the two lists differ in length
Saves(data, stamps) == data # <<>> /\ Len(data) = Len(stamps)

StartRecordingKeepingTimestamps ==
    IF ~is_recording
    THEN /\ is_recording' = TRUE
         /\ recorded_data' = <<>>
         /\ UNCHANGED <<recorded_timestamps, saved>>
    ELSE UNCHANGED <<is_recording, recorded_data, recorded_timestamps, saved>>

start_recording ==
    IF ~is_recording
    THEN /\ is_recording' = TRUE
         /\ recorded_data' = <<>>
         /\ recorded_timestamps' = <<>>
         /\ UNCHANGED saved
    ELSE UNCHANGED <<is_recording, recorded_data, recorded_timestamps, saved>>

\* is_recording is cleared first, then save_recording() runs
stop_recording ==
    IF is_recording
    THEN /\ is_recording' = FALSE
         /\ saved' = IF Saves(recorded_data, recorded_timestamps) THEN saved + 1 ELSE saved
         /\ UNCHANGED <<recorded_data, recorded_timestamps>>
    ELSE UNCHANGED <<is_recording, recorded_data, recorded_timestamps, saved>>

\* the key handler runs in the event loop of the figure, while run is in its loop
on_key_press(key) ==
    /\ pc = "loop"
    /\ IF key = "r"
       THEN /\ IF is_recording THEN stop_recording ELSE start_recording
            /\ UNCHANGED <<should_quit, plot_returned>>
       ELSE IF key = "q"
       THEN /\ should_quit' = TRUE
            /\ UNCHANGED <<is_recording, recorded_data, recorded_timestamps, plot_returned, saved>>
       ELSE UNCHANGED recvars
    /\ UNCHANGED <<bufvars, clsvars, smvars, pipevars, spvars, bsvars, runvars, appended>>

\* one iteration of `while not self.should_quit: self.update_plot()`
update_plot ==
    /\ pc = "loop"
    /\ ~should_quit
    /\ \E chunk \in RecorderChunks(channel_count) :
          /\ appended + Len(chunk) <= MaxSamples
          /\ new_data' = chunk
          /\ appended' = appended + Len(chunk)
          /\ IF chunk # <<>> /\ is_recording
             THEN /\ recorded_data' = recorded_data \o chunk
                  /\ recorded_timestamps' = recorded_timestamps \o Timestamps(Len(chunk))
             ELSE UNCHANGED <<recorded_data, recorded_timestamps>>
          /\ IF Len(chunk) > buffer_size
             THEN \* the slice assignment raises; run leaves through its finally clause
                  /\ raised' = "ValueError"
                  /\ eeg_buffer' = [eeg_buffer EXCEPT ![1] = Roll(eeg_buffer[1], Len(chunk))]
                  /\ is_recording' = FALSE
                  /\ saved' = IF is_recording /\ Saves(recorded_data', recorded_timestamps')
                              THEN saved + 1 ELSE saved
                  /\ plot_returned' = "raised"
                  /\ pc' = "returned"
             ELSE /\ raised' = "none"
                  /\ eeg_buffer' = [c \in 1..channel_count |-> PlotBuffer(eeg_buffer[c], chunk, c)]
                  /\ plot_returned' = "True"
                  /\ UNCHANGED <<is_recording, saved, pc>>
    /\ UNCHANGED <<fs, channel_count, buffer_size, should_quit, current_time>>
    /\ UNCHANGED <<clsvars, smvars, pipevars, spvars, bsvars>>

\* the loop ends: finally, stop_recording() if a recording is active
run_returns ==
    /\ pc = "loop"
    /\ should_quit
    /\ pc' = "returned"
    /\ stop_recording
    /\ UNCHANGED <<bufvars, clsvars, smvars, pipevars, spvars, bsvars, should_quit, plot_returned,
                   current_time, appended>>

NextRecorder ==
    \/ \E key \in Keys : on_key_press(key)
    \/ update_plot
    \/ run_returns

SpecRecorder == InitRecorder /\ [][NextRecorder]_vars

(***************************************************************************)
(* EEGRecorder.run under keyboard interrupts.  update_plot catches a       *)
(* KeyboardInterrupt raised anywhere inside its try block and returns      *)
(* False; run calls self.update_plot() as a statement, so the value is     *)
(* dropped.  An interrupt that arrives in run itself, between two calls,   *)
(* reaches run's own except clause.                                        *)
(***************************************************************************)

\* update_plot is interrupted: before the chunk is used (at "pull"), between the
\* two extend calls (at "data"), or after both, with the first k plot buffers
\* updated (at "plot"; k = channel_count is an interrupt inside plt.pause)
update_plot_interrupted ==
    /\ pc = "loop"
    /\ ~should_quit
    /\ \E chunk \in RecorderChunks(channel_count), at \in {"pull", "data", "plot"},
          k \in 0..channel_count :
          /\ appended + Len(chunk) <= MaxSamples
          /\ at = "data" => (chunk # <<>> /\ is_recording)
          /\ at = "plot" => (chunk # <<>> /\ (k > 0 => Len(chunk) <= buffer_size))
          /\ at # "plot" => k = 0
          /\ new_data' = chunk
          /\ appended' = appended + Len(chunk)
          /\ recorded_data' = IF at # "pull" /\ is_recording
                              THEN recorded_data \o chunk ELSE recorded_data
          /\ recorded_timestamps' = IF at = "plot" /\ is_recording
                                    THEN recorded_timestamps \o Timestamps(Len(chunk))
                                    ELSE recorded_timestamps
          /\ eeg_buffer' = [c \in 1..channel_count |->
                               IF c <= k THEN PlotBuffer(eeg_buffer[c], chunk, c)
                               ELSE eeg_buffer[c]]
    /\ raised' = "KeyboardInterrupt"
    /\ plot_returned' = "False"
    /\ UNCHANGED <<fs, channel_count, buffer_size, is_recording, should_quit, saved, runvars>>
    /\ UNCHANGED <<clsvars, smvars, pipevars, spvars, bsvars>>

\* the interrupt arrives in run, outside update_plot: except, then finally
run_interrupted ==
    /\ pc = "loop"
    /\ pc' = "returned"
    /\ stop_recording
    /\ UNCHANGED <<bufvars, clsvars, smvars, pipevars, spvars, bsvars, should_quit, plot_returned,
                   current_time, appended>>

NextRecorderRun ==
    \/ \E key \in Keys : on_key_press(key)
    \/ update_plot
    \/ update_plot_interrupted
    \/ run_returns
    \/ run_interrupted

SpecRecorderRun == InitRecorder /\ [][NextRecorderRun]_vars

\* C27: once update_plot has returned False the run loop makes no further call of
\* update_plot, and when run ends while a recording is active the recording is
\* stopped and, if it holds data, saved exactly once, so that is_recording is
\* False after run has returned.
InterruptEndsRunStep ==
    /\ (plot_returned = "False" /\ pc = "loop") => plot_returned' # "True"
    /\ (pc = "loop" /\ pc' = "returned" /\ is_recording) =>
           /\ ~is_recording'
           /\ saved' <= saved + 1
           /\ recorded_data' # <<>> => saved' = saved + 1

InterruptEndsRun ==
    /\ [](pc = "returned" => ~is_recording)
    /\ [][InterruptEndsRunStep]_vars

RecordingStep ==
    /\ Len(recorded_data') = Len(recorded_timestamps')
    /\ (Len(recorded_data') > Len(recorded_data)
          \/ Len(recorded_timestamps') > Len(recorded_timestamps))
          => /\ is_recording
             /\ appended' > appended
             /\ recorded_data' = recorded_data \o new_data'
             /\ Len(recorded_timestamps') = Len(recorded_timestamps) + Len(new_data')

----------------------------------------------------------------------------
(* AlertnessMonitor.run, statement by statement.  A KeyboardInterrupt is    *)
(* raised asynchronously: it can arrive before any statement of the loop.   *)

\* AlertnessMonitor.analyze_cognitive_state: the same cascade, returning the text shown
AlertnessState(bp) ==
    LET rel == RelativePowers(bp)
        tb == BetaRatio(bp, "Theta")
        ab == BetaRatio(bp, "Alpha")
    IN  IF Gt(tb, 5, 2) THEN "DROWSY - Take a break!"
        ELSE IF Gt(rel["Delta"], 2, 5) THEN "MICROSLEEP RISK - Pull over!"
        ELSE IF Gt(rel["Beta"], 3, 10) /\ Gt(rel["Gamma"], 3, 20) THEN "HIGHLY ALERT"
        ELSE IF Gt(rel["Beta"], 1, 4) THEN "ALERT"
        ELSE IF Gt(ab, 3, 5) /\ Lt(ab, 3, 2) THEN "RELAXED"
        ELSE "NORMAL"

\* the statements inside the try block of run
InTry == {"pull", "update", "average", "analyze", "smooth", "print", "stamp", "sleep"}

InitAlertness ==
    /\ fs \in SampleRates
    /\ channel_count \in ChannelCounts
    /\ buffer_size = fs * 4
    /\ eeg_buffer = [c \in 1..channel_count |-> Zeros(buffer_size)]
    /\ new_data = <<>>
    /\ raised = "none"
    /\ IdleClassifier
    /\ IdleSmoother
    /\ IdlePipeline
    /\ IdleSpectrum
    /\ IdleBrainState
    /\ IdleRecorder
    /\ pc = "calibrate"
    /\ current_time = 0
    /\ appended = 0

\* time.sleep(5)
calibrate ==
    /\ pc = "calibrate"
    /\ now' = now + Calibration
    /\ pc' = "pull"
    /\ UNCHANGED <<bufvars, clsvars, smvars, last_update_time, is_connected, result, pull,
                   emitted_at, inlet, current_time, appended>>
    /\ UNCHANGED <<spvars, bsvars, recvars>>

\* chunk, timestamps = self.inlet.pull_chunk(); if chunk:
\* an exception of pull_chunk is not a KeyboardInterrupt and leaves run
pull_chunk ==
    /\ pc = "pull"
    /\ \/ /\ pull' = "raise"
          /\ raised' = "Exception"
          /\ new_data' = <<>>
          /\ pc' = "crashed"
       \/ /\ pull' = "empty"
          /\ raised' = "none"
          /\ new_data' = <<>>
          /\ pc' = "sleep"
       \/ \E chunk \in PulledChunks :
             /\ pull' = "chunk"
             /\ raised' = "none"
             /\ new_data' = chunk
             /\ pc' = "update"
    /\ UNCHANGED <<fs, channel_count, buffer_size, eeg_buffer, clsvars, smvars, now,
                   last_update_time, is_connected, result, emitted_at, inlet, current_time,
                   appended>>
    /\ UNCHANGED <<spvars, bsvars, recvars>>

\* self.update_buffer(chunk_data); current_time = time.time(); if current_time - ...
run_update_buffer ==
    /\ pc = "update"
    /\ eeg_buffer' = UpdateBufferResult(eeg_buffer, new_data)
    /\ raised' = UpdateBufferRaises(eeg_buffer, new_data)
    /\ IF UpdateBufferRaises(eeg_buffer, new_data) # "none"
       THEN /\ pc' = "crashed"
            /\ UNCHANGED <<current_time, appended>>
       ELSE /\ appended' = Min(appended + Samples(new_data), buffer_size)
            /\ current_time' = now
            /\ pc' = IF Due(now, last_update_time) THEN "average" ELSE "sleep"
    /\ UNCHANGED <<fs, channel_count, buffer_size, new_data, clsvars, smvars, pipevars>>
    /\ UNCHANGED <<spvars, bsvars, recvars>>

\* the averaging over range(self.channel_count - 1) and the division
average ==
    /\ pc = "average"
    /\ IF channel_count - 1 = 0
       THEN /\ raised' = "ZeroDivisionError"
            /\ pc' = "crashed"
            /\ UNCHANGED band_powers
       ELSE /\ \E avg_powers \in PushPowers : band_powers' = avg_powers
            /\ pc' = "analyze"
            /\ UNCHANGED raised
    /\ UNCHANGED <<fs, channel_count, buffer_size, eeg_buffer, new_data, state_info, smvars,
                   pipevars, current_time, appended>>
    /\ UNCHANGED <<spvars, bsvars, recvars>>

\* current_state = self.analyze_cognitive_state(avg_powers)
analyze ==
    /\ pc = "analyze"
    /\ state_info' = AlertnessState(band_powers)
    /\ pc' = "smooth"
    /\ UNCHANGED <<bufvars, band_powers, smvars, pipevars, current_time, appended>>
    /\ UNCHANGED <<spvars, bsvars, recvars>>

\* smoothed_state = self.get_smoothed_state(current_state)
smooth ==
    /\ pc = "smooth"
    /\ state_history' = HistoryAfterPush(state_history, state_info)
    /\ \E order \in IterationOrders(Range(state_history')) :
          smoothed_state' = MaxByCount(order, state_history')
    /\ pushed' = Append(pushed, state_info)
    /\ pc' = "print"
    /\ UNCHANGED <<bufvars, clsvars, run_log, prev_log, pipevars, current_time, appended>>
    /\ UNCHANGED <<spvars, bsvars, recvars>>

\* the smoothed state is printed
print_state ==
    /\ pc = "print"
    /\ emitted_at' = Append(emitted_at, now)
    /\ pc' = "stamp"
    /\ UNCHANGED <<bufvars, clsvars, smvars, now, last_update_time, is_connected, result, pull,
                   inlet, current_time, appended>>
    /\ UNCHANGED <<spvars, bsvars, recvars>>

\* self.last_update_time = current_time
stamp ==
    /\ pc = "stamp"
    /\ last_update_time' = current_time
    /\ pc' = "sleep"
    /\ UNCHANGED <<bufvars, clsvars, smvars, now, is_connected, result, pull, emitted_at,
                   inlet, current_time, appended>>
    /\ UNCHANGED <<spvars, bsvars, recvars>>

\* time.sleep(0.1)
sleep ==
    /\ pc = "sleep"
    /\ now < MaxTime
    /\ now' = now + TickPeriod
    /\ pc' = "pull"
    /\ UNCHANGED <<bufvars, clsvars, smvars, last_update_time, is_connected, result, pull,
                   emitted_at, inlet, current_time, appended>>
    /\ UNCHANGED <<spvars, bsvars, recvars>>

\* Ctrl-C: caught by `except KeyboardInterrupt` inside the try block; during
\* the calibration sleep, which is outside it, the interrupt leaves run
KeyboardInterrupt ==
    /\ pc \in InTry \cup {"calibrate"}
    /\ pc' = IF pc \in InTry THEN "stopped" ELSE "crashed"
    /\ raised' = "KeyboardInterrupt"
    /\ UNCHANGED <<fs, channel_count, buffer_size, eeg_buffer, new_data, clsvars, smvars,
                   pipevars, current_time, appended>>
    /\ UNCHANGED <<spvars, bsvars, recvars>>

NextAlertness ==
    \/ calibrate
    \/ pull_chunk
    \/ run_update_buffer
    \/ average
    \/ analyze
    \/ smooth
    \/ print_state
    \/ stamp
    \/ sleep
    \/ KeyboardInterrupt

SpecAlertness == InitAlertness /\ [][NextAlertness]_vars

\* C11: a failing pull does not crash the pipeline: the tick yields the ERROR
\* result with alert level 1, the connectivity flag becomes false and the
\* loop keeps ticking.
PullFailureSurvived ==
    pull = "raise" =>
        /\ pc # "crashed"
        /\ result = ErrorResult
        /\ ~is_connected

\* C13: a stop never leaves a tick half done: once stopped, every raw label
\* pushed to state_history has had its result shown and last_update_time set
\* to the time of that tick.
NoTickHalfDone ==
    pc = "stopped" =>
        /\ Len(pushed) = Len(emitted_at)
        /\ emitted_at # <<>> => last_update_time = emitted_at[Len(emitted_at)]

====
